---- MODULE Spec2Model ----
(***************************************************************************)
(* A model of pdoc (src/pdoc/__init__.py): the text renderer's blank-line  *)
(* collapsing, the doc-comment scanner, the ordering of methods, the       *)
(* parameter formatter, and the construction of a Module documentation     *)
(* tree with its identifier resolution.                                    *)
(*                                                                         *)
(* Python strings are sequences of one-character strings, so that          *)
(* startswith, split, count, lower, strip and comparison are computed      *)
(* character by character as the interpreter computes them.                *)
(***************************************************************************)
EXTENDS Integers, Sequences, FiniteSets, TLC

VARIABLES
  pc,        \* which operation has run: "start" or "done" (plus steps of a spec)
  rendered,  \* _tpl_text: the template's output, t.render(**kwargs)
  new,       \* _tpl_text: the returned text
  children,  \* _extract_var_docstrings: list(ast.iter_child_nodes(ast_tree))
  i,         \* _extract_var_docstrings: the loop index (0-based, as in the code)
  vs,        \* _extract_var_docstrings: the result, name -> Variable
  values,    \* Class.methods: the Function entities of self.doc.values(), in dict order
  sorted,    \* Class.methods: the returned list
  argspec,   \* Function.params: what inspect.getargspec(self.func) gives
  params,    \* Function.params: the returned list
  world,     \* the interpreter: sys.modules, the class objects, the package directory
  root,      \* Module(...) of the module p: the exception raised, or the Module entity
  ident,     \* Module.find_ident: the name looked up
  found      \* Module.find_ident: the entity returned

vars == <<pc, rendered, new, children, i, vs, values, sorted, argspec, params,
          world, root, ident, found>>

\* The value of the variables an operation does not use.
textIdle == rendered = <<>> /\ new = <<>>
scanIdle == children = <<>> /\ i = 0 /\ vs = <<>>
sortIdle == values = <<>> /\ sorted = <<>>
paramsIdle == argspec = <<>> /\ params = <<>>
moduleIdle == world = <<>> /\ root = <<>> /\ ident = <<>> /\ found = <<>>

\* ------------------------------------------------------------ strings

NL == "\n"
SP == " "

\* All sequences over S of length 0..n.
SeqsUpTo(elems, n) == UNION {[1..k -> elems] : k \in 0..n}

IsSpace(c) == c \in {NL, SP}

RECURSIVE LStrip(_)
LStrip(s) == IF s # <<>> /\ IsSpace(Head(s)) THEN LStrip(Tail(s)) ELSE s

RECURSIVE RStrip(_)
RStrip(s) ==
  IF s # <<>> /\ IsSpace(s[Len(s)]) THEN RStrip(SubSeq(s, 1, Len(s) - 1)) ELSE s

\* str.strip()
Strip(s) == RStrip(LStrip(s))

\* s.startswith(p)
StartsWith(s, p) == Len(p) <= Len(s) /\ SubSeq(s, 1, Len(p)) = p

\* s.endswith(p)
EndsWith(s, p) ==
  Len(p) <= Len(s) /\ SubSeq(s, Len(s) - Len(p) + 1, Len(s)) = p

\* s.split(sep) for a one-character separator: always at least one piece.
RECURSIVE SplitFrom(_, _, _)
SplitFrom(s, sep, cur) ==
  IF s = <<>> THEN <<cur>>
  ELSE IF Head(s) = sep THEN <<cur>> \o SplitFrom(Tail(s), sep, <<>>)
  ELSE SplitFrom(Tail(s), sep, Append(cur, Head(s)))

Split(s, sep) == SplitFrom(s, sep, <<>>)

\* sep.join(pieces) for a one-character separator
RECURSIVE Join(_, _)
Join(pieces, sep) ==
  IF pieces = <<>> THEN <<>>
  ELSE IF Len(pieces) = 1 THEN pieces[1]
  ELSE pieces[1] \o <<sep>> \o Join(Tail(pieces), sep)

\* s.count(c) for a one-character c
Count(s, c) == Cardinality({k \in 1..Len(s) : s[k] = c})

\* ------------------------------------------------------------ _tpl_text

MaxText == 7

TextChars == {"a", SP, NL}

\* The number of consecutive newlines at the head of s.
RECURSIVE NewlinesAtHead(_)
NewlinesAtHead(s) ==
  IF s # <<>> /\ Head(s) = NL THEN 1 + NewlinesAtHead(Tail(s)) ELSE 0

\* A variant that collapses a run only from five newlines on.
RECURSIVE SubnFiveOrMore(_)
SubnFiveOrMore(s) ==
  IF s = <<>> THEN <<>>
  ELSE LET k == NewlinesAtHead(s) IN
       IF k >= 5 THEN <<NL, NL, NL>> \o SubnFiveOrMore(SubSeq(s, k + 1, Len(s)))
       ELSE <<Head(s)>> \o SubnFiveOrMore(Tail(s))

\* re.subn('\n\n\n\n+', '\n\n\n', s)[0]: leftmost, greedy, non-overlapping.
RECURSIVE Subn(_)
Subn(s) ==
  IF s = <<>> THEN <<>>
  ELSE LET k == NewlinesAtHead(s) IN
       IF k >= 4 THEN <<NL, NL, NL>> \o Subn(SubSeq(s, k + 1, Len(s)))
       ELSE <<Head(s)>> \o Subn(Tail(s))

InitText ==
  /\ pc = "start"
  /\ rendered \in SeqsUpTo(TextChars, MaxText)
  /\ new = <<>>
  /\ scanIdle /\ sortIdle /\ paramsIdle /\ moduleIdle

\* _tpl_text(tpl_name, **kwargs), after the template engine has rendered.
tpl_text ==
  /\ pc = "start"
  /\ new' = Subn(Strip(rendered))
  /\ pc' = "done"
  /\ UNCHANGED <<rendered, children, i, vs, values, sorted, argspec, params, world, root, ident, found>>

NextText == tpl_text

SpecText == InitText /\ [][NextText]_vars

\* The lines of a text, and how they are laid out: the non-empty lines in
\* order, and the number of empty lines between each two successive ones.
Lines(s) == Split(s, NL)

NonBlank(s) == SelectSeq(Lines(s), LAMBDA l : l # <<>>)

NonBlankAt(s) == {k \in 1..Len(Lines(s)) : Lines(s)[k] # <<>>}

\* The index in Lines(s) of the j-th non-empty line.
NthNonBlank(s, j) ==
  CHOOSE k \in NonBlankAt(s) :
    Cardinality({h \in NonBlankAt(s) : h <= k}) = j

Gaps(s) ==
  [j \in 1..(Len(NonBlank(s)) - 1) |->
     NthNonBlank(s, j + 1) - NthNonBlank(s, j) - 1]

\* C6 (as stated): every run of four or more consecutive blank lines becomes
\* exactly two blank lines, and every run of one, two or three blank lines is
\* left unchanged.
C6_AsStated ==
  pc = "done" =>
    /\ NonBlank(new) = NonBlank(Strip(rendered))
    /\ \A j \in DOMAIN Gaps(Strip(rendered)) :
         LET g == Gaps(Strip(rendered))[j] IN
         /\ g >= 4 => Gaps(new)[j] = 2
         /\ g \in 1..3 => Gaps(new)[j] = g

\* C6 (amended): every run of three or more consecutive empty lines (four or
\* more newline characters) becomes exactly two empty lines, and every run of
\* one or two empty lines is left unchanged; the non-empty lines are kept.
C6_Collapse ==
  pc = "done" =>
    /\ NonBlank(new) = NonBlank(Strip(rendered))
    /\ DOMAIN Gaps(new) = DOMAIN Gaps(Strip(rendered))
    /\ \A j \in DOMAIN Gaps(Strip(rendered)) :
         LET g == Gaps(Strip(rendered))[j] IN
         Gaps(new)[j] = IF g >= 3 THEN 2 ELSE g

\* A run of exactly three empty lines (four newlines) was rendered and has
\* been collapsed to two.
C6_Witness ==
  /\ pc = "done"
  /\ \E j \in DOMAIN Gaps(Strip(rendered)) :
       Gaps(Strip(rendered))[j] = 3 /\ Gaps(new)[j] = 2

\* ------------------------------------------------------------ Doc, Variable

\* The common indentation of the non-blank lines: min over len(line) -
\* len(line.lstrip()); -1 stands for sys.maxint (no such line).
Indent(line) == Len(line) - Len(LStrip(line))

Margin(lines) ==
  LET ind == {Indent(lines[k]) : k \in {k \in 1..Len(lines) : LStrip(lines[k]) # <<>>}}
  IN IF ind = {} THEN -1 ELSE CHOOSE m \in ind : \A n \in ind : m <= n

RECURSIVE DropTrailingEmpty(_)
DropTrailingEmpty(lines) ==
  IF lines # <<>> /\ lines[Len(lines)] = <<>>
  THEN DropTrailingEmpty(SubSeq(lines, 1, Len(lines) - 1)) ELSE lines

RECURSIVE DropLeadingEmpty(_)
DropLeadingEmpty(lines) ==
  IF lines # <<>> /\ Head(lines) = <<>> THEN DropLeadingEmpty(Tail(lines)) ELSE lines

\* inspect.cleandoc(doc), as Doc.__init__ applies it to every docstring.
cleandoc(doc) ==
  LET lines  == Split(doc, NL)
      margin == Margin(Tail(lines))
      first  == LStrip(lines[1])
      rest   == [k \in 1..(Len(lines) - 1) |->
                   IF margin >= 0
                   THEN SubSeq(lines[k + 1], margin + 1, Len(lines[k + 1]))
                   ELSE lines[k + 1]]
  IN Join(DropLeadingEmpty(DropTrailingEmpty(<<first>> \o rest)), NL)

\* Doc.__init__(self, module, name, docstring)
Doc(module, name, docstring) ==
  [kind |-> "Doc", module |-> module, name |-> name,
   docstring |-> cleandoc(docstring)]

\* Variable.__init__(self, module, name, docstring)
Variable(module, name, docstring) ==
  [Doc(module, name, docstring) EXCEPT !.kind = "Variable"]

\* Doc.is_empty(self)
is_empty(d) == Len(Strip(d.docstring)) = 0

\* ------------------------------------------------------------ scanner

MaxStmts == 4

\* The string literals of the scanned blocks.
Literals == {<<"a">>, <<SP, "a">>, <<"a", NL, SP, "b", NL>>}

\* AST nodes: an assignment with its number of targets and the form of the
\* first one, an expression statement with the form of its value, or any
\* other node.
AssignNode(n, form, id) ==
  [node |-> "Assign", ntargets |-> n, target |-> form, id |-> id,
   value |-> "-", s |-> <<>>]

ExprNode(form, s) ==
  [node |-> "Expr", ntargets |-> 0, target |-> "-", id |-> <<"-">>,
   value |-> form, s |-> s]

PassNode == [node |-> "Pass", ntargets |-> 0, target |-> "-", id |-> <<"-">>,
             value |-> "-", s |-> <<>>]

Nodes ==
  {AssignNode(1, "Name", <<"x">>), AssignNode(1, "Attribute", <<"x">>),
   AssignNode(1, "Name", <<"y">>), AssignNode(1, "Subscript", <<"-">>),
   AssignNode(2, "Name", <<"x">>)}
  \cup {ExprNode("Str", l) : l \in Literals}
  \cup {ExprNode("Call", <<>>), PassNode}

\* A variant that takes the next string literal wherever it stands.
AssignThenLaterStr(ch, k) ==
  /\ ch[k + 1].node = "Assign"
  /\ ch[k + 1].ntargets = 1
  /\ \E h \in (k + 2)..Len(ch) : ch[h].node = "Expr" /\ ch[h].value = "Str"

\* The condition of the scanner's outer if, for the child at 0-based index k.
AssignThenStr(ch, k) ==
  /\ ch[k + 1].node = "Assign"
  /\ ch[k + 1].ntargets = 1
  /\ k + 1 < Len(ch)
  /\ ch[k + 2].node = "Expr"
  /\ ch[k + 2].value = "Str"

\* One iteration of the loop body of _extract_var_docstrings on child k.
ScanChild(module, ch, k, acc) ==
  IF AssignThenStr(ch, k) /\ ch[k + 1].target \in {"Name", "Attribute"}
  THEN LET name == ch[k + 1].id
           var  == Variable(module, name, ch[k + 2].s)
       IN [n \in DOMAIN acc \cup {name} |-> IF n = name THEN var ELSE acc[n]]
  ELSE acc

\* _extract_var_docstrings(module, ast_tree) as a whole, from child k on.
RECURSIVE ScanFrom(_, _, _, _)
ScanFrom(module, ch, k, acc) ==
  IF k >= Len(ch) THEN acc
  ELSE ScanFrom(module, ch, k + 1, ScanChild(module, ch, k, acc))

extract_var_docstrings(module, ch) == ScanFrom(module, ch, 0, <<>>)

InitScan ==
  /\ pc = "scan"
  /\ children \in SeqsUpTo(Nodes, MaxStmts)
  /\ i = 0
  /\ vs = <<>>
  /\ textIdle /\ sortIdle /\ paramsIdle /\ moduleIdle

\* _extract_var_docstrings: one iteration of "for i, child in enumerate(children)".
extract_step ==
  /\ pc = "scan"
  /\ i < Len(children)
  /\ vs' = ScanChild(<<"m">>, children, i, vs)
  /\ i' = i + 1
  /\ UNCHANGED <<pc, children, rendered, new, values, sorted, argspec, params, world, root, ident, found>>

\* _extract_var_docstrings: "return vs".
extract_return ==
  /\ pc = "scan"
  /\ i = Len(children)
  /\ pc' = "done"
  /\ UNCHANGED <<children, i, vs, rendered, new, values, sorted, argspec, params, world, root, ident, found>>

NextScan == extract_step \/ extract_return

SpecScan == InitScan /\ [][NextScan]_vars

\* Statement k (1-based) is a single-target assignment to a plain name or an
\* attribute whose final identifier is x, and statement k+1 is a bare string
\* literal.
Qualifies(x, k) ==
  /\ k + 1 <= Len(children)
  /\ children[k].node = "Assign"
  /\ children[k].ntargets = 1
  /\ children[k].target \in {"Name", "Attribute"}
  /\ children[k].id = x
  /\ children[k + 1].node = "Expr"
  /\ children[k + 1].value = "Str"

LastQualifying(x) ==
  CHOOSE k \in 1..Len(children) :
    Qualifies(x, k) /\ \A h \in 1..Len(children) : Qualifies(x, h) => h <= k

BoundExactlyWhenQualifying ==
  \A x \in {<<"x">>, <<"y">>, <<"-">>} :
    x \in DOMAIN vs <=> \E k \in 1..Len(children) : Qualifies(x, k)

MaxMethods == 3

\* ord(c) of the characters that occur in the names.
Ord ==
  [c \in {"B", "_", "a", "b", "e", "i", "n", "t", "w", "z"} |->
     IF c = "B" THEN 66 ELSE IF c = "_" THEN 95 ELSE IF c = "a" THEN 97
     ELSE IF c = "b" THEN 98 ELSE IF c = "e" THEN 101 ELSE IF c = "i" THEN 105
     ELSE IF c = "n" THEN 110 ELSE IF c = "t" THEN 116 ELSE IF c = "w" THEN 119
     ELSE 122]

DunderNew == <<"_", "_", "n", "e", "w", "_", "_">>
DunderInit == <<"_", "_", "i", "n", "i", "t", "_", "_">>

MethodNames == {DunderNew, DunderInit, <<"a">>, <<"a", "b">>, <<"z">>, <<"B">>, <<"_", "a">>}

\* cmp(a, b) on integers
CmpInt(a, b) == IF a < b THEN -1 ELSE IF a > b THEN 1 ELSE 0

\* cmp(a, b) on strings: the first differing character decides, then the length.
RECURSIVE CmpStr(_, _)
CmpStr(a, b) ==
  IF a = <<>> \/ b = <<>> THEN CmpInt(Len(a), Len(b))
  ELSE IF Head(a) # Head(b) THEN CmpInt(Ord[Head(a)], Ord[Head(b)])
  ELSE CmpStr(Tail(a), Tail(b))

\* A variant that orders every name as a plain string.
CmpByNameOnly(self, other) == CmpStr(self.name, other.name)

\* Doc.__cmp__(self, other)
Doc_cmp(self, other) == CmpStr(self.name, other.name)

\* Function.__cmp__(self, other)
Function_cmp(self, other) ==
  IF DunderNew \in {self.name, other.name}
  THEN CmpInt(IF self.name = DunderNew THEN 0 ELSE 1, IF other.name = DunderNew THEN 0 ELSE 1)
  ELSE IF DunderInit \in {self.name, other.name}
  THEN CmpInt(IF self.name = DunderInit THEN 0 ELSE 1, IF other.name = DunderInit THEN 0 ELSE 1)
  ELSE CmpStr(self.name, other.name)

\* Function.__init__, as far as the ordering reads it: the entity's name.
FunctionNamed(name) == [kind |-> "Function", name |-> name]

\* sorted(vs) of Function entities: a stable insertion of each element after
\* the last element that does not compare greater than it.
RECURSIVE InsertSorted(_, _)
InsertSorted(lst, x) ==
  IF lst = <<>> THEN <<x>>
  ELSE IF Function_cmp(x, lst[Len(lst)]) < 0
  THEN Append(InsertSorted(SubSeq(lst, 1, Len(lst) - 1), x), lst[Len(lst)])
  ELSE Append(lst, x)

RECURSIVE SortedList(_)
SortedList(lst) ==
  IF lst = <<>> THEN <<>>
  ELSE InsertSorted(SortedList(SubSeq(lst, 1, Len(lst) - 1)), lst[Len(lst)])

Injective(f) == \A a, b \in DOMAIN f : f[a] = f[b] => a = b

InitSort ==
  /\ pc = "start"
  /\ \E names \in SeqsUpTo(MethodNames, MaxMethods) :
       /\ Injective(names)
       /\ values = [k \in DOMAIN names |-> FunctionNamed(names[k])]
  /\ sorted = <<>>
  /\ textIdle /\ scanIdle /\ paramsIdle /\ moduleIdle

\* Class.methods(self)
methods ==
  /\ pc = "start"
  /\ sorted' = SortedList(values)
  /\ pc' = "done"
  /\ UNCHANGED <<values, rendered, new, children, i, vs, argspec, params, world, root, ident, found>>

NextSort == methods

SpecSort == InitSort /\ [][NextSort]_vars

\* a sorts strictly before b as a string: a is a proper prefix of b, or the
\* first character they differ in is smaller in a.
LexLess(a, b) ==
  \E k \in 1..(Len(b)) :
    /\ \A h \in 1..(k - 1) : h <= Len(a) /\ a[h] = b[h]
    /\ k > Len(a) \/ (k <= Len(a) /\ Ord[a[k]] < Ord[b[k]])

\* The listing order of two distinct method names.
ListedBefore(a, b) ==
  \/ a = DunderNew
  \/ a = DunderInit /\ b # DunderNew
  \/ a \notin {DunderNew, DunderInit} /\ b \notin {DunderNew, DunderInit} /\ LexLess(a, b)

\* C4: methods() returns the given Function entities with __new__ first,
\* __init__ next and the others in ascending order of name, and __cmp__ is
\* antisymmetric and transitive on them, so the input order does not matter.
C4_Methods ==
  pc = "done" =>
    LET ents == {values[k] : k \in DOMAIN values} IN
    /\ Len(sorted) = Len(values)
    /\ {sorted[k] : k \in DOMAIN sorted} = ents
    /\ \A k, h \in DOMAIN sorted :
         k < h => ListedBefore(sorted[k].name, sorted[h].name)
    /\ \A a, b \in ents : Function_cmp(a, b) = 0 - Function_cmp(b, a)
    /\ \A a, b \in ents : a # b => Function_cmp(a, b) # 0
    /\ \A a, b, c \in ents :
         Function_cmp(a, b) < 0 /\ Function_cmp(b, c) < 0 => Function_cmp(a, c) < 0

\* zeta-like, __init__ and __new__ were given in an order that is not the
\* listing order, and the listing has been returned.
C4_Witness ==
  /\ pc = "done"
  /\ Len(values) = 3
  /\ values[2].name = DunderInit /\ values[3].name = DunderNew
  /\ values[1].name \notin {DunderNew, DunderInit}
  /\ sorted[1].name = DunderNew

\* ------------------------------------------------------------ Function.params

MaxArgs == 3

\* A positional parameter: a plain name, or (legacy) a nested tuple of names.
PlainParam(id) == [nested |-> FALSE, id |-> id, els |-> <<>>]
NestedParam(els) == [nested |-> TRUE, id |-> "-", els |-> els]

ParamPool ==
  {PlainParam("a"), PlainParam("b"), PlainParam("c"), NestedParam(<<"x", "y">>)}

DefaultPool == {10, 20}

\* '%s' % v for the default values.
StrOf(v) == CASE v = 10 -> "10" [] v = 20 -> "20"

\* None where a tuple may stand, None where a name may stand, or a value.
None == [none |-> TRUE, v |-> <<>>]
NoName == [none |-> TRUE, v |-> ""]
Some(v) == [none |-> FALSE, v |-> v]

\* fmt_param(el): the name itself, or the parenthesised, comma-joined group.
RECURSIVE CommaJoin(_)
CommaJoin(els) ==
  IF els = <<>> THEN <<>>
  ELSE IF Len(els) = 1 THEN <<els[1]>>
  ELSE <<els[1], ", ">> \o CommaJoin(Tail(els))

fmt_param(el) ==
  IF ~el.nested THEN <<el.id>> ELSE <<"(">> \o CommaJoin(el.els) \o <<")">>

\* '%s' % param in the 'name=default' branch: a nested parameter is shown as
\* the list it is.
StrOfParam(el) == IF ~el.nested THEN <<el.id>> ELSE <<"[">> \o CommaJoin(el.els) \o <<"]">>

\* A variant whose test for "has a default" is strict.
HasDefaultStrict(sp, k) ==
  ~sp.defaults.none /\ Len(sp.args) - k < Len(sp.defaults.v)

\* The test of the loop body for the parameter at 0-based index k.
HasDefault(sp, k) ==
  ~sp.defaults.none /\ Len(sp.args) - k <= Len(sp.defaults.v)

\* The entry of the parameter at 0-based index k.
ParamEntry(sp, k) ==
  IF HasDefault(sp, k)
  THEN LET defind == Len(sp.defaults.v) - (Len(sp.args) - k)
       IN StrOfParam(sp.args[k + 1]) \o <<"=", StrOf(sp.defaults.v[defind + 1])>>
  ELSE fmt_param(sp.args[k + 1])

\* Function.params(self), given what getargspec returned (or that it raised
\* TypeError).
Params(sp) ==
  IF ~sp.ok THEN << <<"...">> >>
  ELSE [k \in 1..Len(sp.args) |-> ParamEntry(sp, k - 1)]
       \o (IF sp.varargs.none THEN <<>> ELSE << <<"*", sp.varargs.v>> >>)
       \o (IF sp.keywords.none THEN <<>> ELSE << <<"**", sp.keywords.v>> >>)

ArgSpecs ==
  {[ok |-> FALSE, args |-> <<>>, defaults |-> None, varargs |-> NoName,
    keywords |-> NoName]}
  \cup
  {[ok |-> TRUE, args |-> a, defaults |-> d, varargs |-> va, keywords |-> kw] :
     a \in {x \in SeqsUpTo(ParamPool, MaxArgs) : Injective(x)},
     d \in {None} \cup {Some(x) : x \in SeqsUpTo(DefaultPool, MaxArgs) \ {<<>>}},
     va \in {NoName, Some("args")},
     kw \in {NoName, Some("kws")}}

InitParams ==
  /\ pc = "start"
  /\ argspec \in {sp \in ArgSpecs :
                    sp.defaults.none \/ Len(sp.defaults.v) <= Len(sp.args)}
  /\ params = <<>>
  /\ textIdle /\ scanIdle /\ sortIdle /\ moduleIdle

\* Function.params(self)
params_call ==
  /\ pc = "start"
  /\ params' = Params(argspec)
  /\ pc' = "done"
  /\ UNCHANGED <<argspec, rendered, new, children, i, vs, values, sorted, world, root, ident, found>>

NextParams == params_call

SpecParams == InitParams /\ [][NextParams]_vars

\* C5: for an introspectable callable with n plain positional parameters and
\* d defaults, params() gives the n positional entries in declared order, then
\* '*varargs' when present, then '**keywords' when present; entry i is
\* 'name=default' with default number i-(n-d) exactly when i >= n-d, and the
\* bare name otherwise.
C5_Params ==
  (pc = "done" /\ argspec.ok /\ \A k \in DOMAIN argspec.args : ~argspec.args[k].nested) =>
    LET n  == Len(argspec.args)
        d  == IF argspec.defaults.none THEN 0 ELSE Len(argspec.defaults.v)
        nv == IF argspec.varargs.none THEN 0 ELSE 1
        nk == IF argspec.keywords.none THEN 0 ELSE 1
    IN /\ Len(params) = n + nv + nk
       /\ \A k \in 0..(n - 1) :
            params[k + 1] =
              IF k >= n - d
              THEN <<argspec.args[k + 1].id, "=",
                     StrOf(argspec.defaults.v[k - (n - d) + 1])>>
              ELSE <<argspec.args[k + 1].id>>
       /\ nv = 1 => params[n + 1] = <<"*", argspec.varargs.v>>
       /\ nk = 1 => params[n + nv + 1] = <<"**", argspec.keywords.v>>

\* a, b, c with the defaults 10, 20 and both variadic parameters have been
\* formatted.
C5_Witness ==
  /\ pc = "done"
  /\ argspec.ok
  /\ argspec.args = <<PlainParam("a"), PlainParam("b"), PlainParam("c")>>
  /\ argspec.defaults = Some(<<10, 20>>)
  /\ ~argspec.varargs.none /\ ~argspec.keywords.none
  /\ params = << <<"a">>, <<"b", "=", "10">>, <<"c", "=", "20">>,
                 <<"*", "args">>, <<"**", "kws">> >>

\* ------------------------------------------------------------ the interpreter

\* Qualified module names.
P == <<"p">>
PS == <<"p", ".", "s">>
PT == <<"p", ".", "t">>
PTD == <<"p", ".", "t", ".", "d">>
PX == <<"p", "x">>
PU == <<"P", ".", "u">>
O == <<"o">>

\* Attribute names.
DunderAll == <<"_", "_", "a", "l", "l", "_", "_">>
DunderName == <<"_", "_", "n", "a", "m", "e", "_", "_">>

\* str.lower()
Lower(s) == [k \in 1..Len(s) |-> IF s[k] = "P" THEN "p" ELSE s[k]]

\* A runtime object: its kind, its __name__, and inspect.getmodule(obj) (the
\* object itself for a module, sys.modules.get(obj.__module__) for an object
\* that has __module__, None otherwise).
Obj(kind, name, defmod) == [kind |-> kind, name |-> name, defmod |-> defmod]

FunctionObj(name, defmod) == Obj("function", name, Some(defmod))
BuiltinObj(name) == Obj("builtin", name, None)
ClassObj(name, defmod) == Obj("class", name, Some(defmod))
ModuleObj(name) == Obj("module", name, Some(name))
ValueObj == Obj("value", <<>>, None)
InstanceObj(defmod) == Obj("value", <<>>, Some(defmod))

\* inspect.getmodule(obj)
getmodule(obj) == obj.defmod

\* A module object: its __name__, its attributes, __all__ (or None), what
\* inspect.getsource gives (the parsed statements, or the exception raised),
\* whether it is a package with a directory, and that directory's listing.
ModuleCfg(name, attrs, all, source, body, package, listing) ==
  [name |-> name, attrs |-> attrs, all |-> all, source |-> source,
   body |-> body, package |-> package, listing |-> listing]

\* dict(inspect.getmembers(module)): the attributes, the dunder attributes
\* every module has (one stands for them), and __all__ when declared.
getmembers(mo) ==
  LET always == mo.attrs @@ (DunderName :> ValueObj)
  IN IF mo.all.none THEN always ELSE always @@ (DunderAll :> ValueObj)

\* _is_exported(ident_name)
is_exported_name(ident_name) == ~StartsWith(ident_name, <<"_">>)

\* Module.is_submodule(self, module_obj)
is_submodule(selfname, subname) ==
  StartsWith(Lower(subname), Lower(selfname) \o <<".">>)

\* A variant of is_exported that looks at the name only.
is_exported_by_name(selfname, name, module) == is_exported_name(name)

\* Module.is_exported(self, name, module)
is_exported(selfname, name, module) ==
  IF ~is_exported_name(name) THEN FALSE
  ELSE IF ~module.none /\ selfname # module.v /\ ~is_submodule(selfname, module.v)
  THEN FALSE
  ELSE TRUE

\* A variant of the explicit-export rule that drops the private names.
PublicOfAllNoPrivate(members, all) ==
  [n \in {n \in {all[k] : k \in DOMAIN all} : is_exported_name(n)} |-> members[n]]

\* {name: members[name] for name in members['__all__']}
PublicOfAll(members, all) ==
  [n \in {all[k] : k \in DOMAIN all} |-> members[n]]

\* Module.__fetch_public_objs(self): the mapping, or the KeyError of a listed
\* name that is no attribute.
Module_fetch_public_objs(mo) ==
  LET members == getmembers(mo) IN
  IF DunderAll \in DOMAIN members
  THEN IF {mo.all.v[k] : k \in DOMAIN mo.all.v} \subseteq DOMAIN members
       THEN [exc |-> "", public |-> PublicOfAll(members, mo.all.v)]
       ELSE [exc |-> "KeyError", public |-> <<>>]
  ELSE [exc |-> "",
        public |-> [n \in {n \in DOMAIN members :
                             is_exported(mo.name, n, getmodule(members[n]))}
                      |-> members[n]]]

\* Function.__init__(self, module, func_obj)
Function(module, func_obj) ==
  [Doc(module, func_obj.name, <<>>) EXCEPT !.kind = "Function"]

\* A class object: its members (each a method, a function, a builtin or a
\* value), what inspect.getsource gives, the statements of its body and of
\* its __init__ (None without one).
ClassCfg(name, members, source, body, initbody) ==
  [name |-> name, members |-> members, source |-> source, body |-> body,
   initbody |-> initbody]

\* Class.__fetch_public_objs(self)
Class_fetch_public_objs(cc) ==
  [n \in {n \in DOMAIN cc.members :
            n \in {DunderInit, DunderNew} \/ is_exported_name(n)}
     |-> cc.members[n]]

\* The element of a one-element set: Only({e(x) : x \in {v}}) is e(v) with v
\* computed once.
Only(set) == CHOOSE r \in set : TRUE

\* Class.__init__, lines 421-432: the members documented by reflection are
\* added to what the scan of the source found.
ClassMembers(module, cc, public, scanned, doc_init) ==
  LET todo  == {n \in DOMAIN public :
                  ~(n \in DOMAIN scanned /\ ~is_empty(scanned[n]))}
      meths == {n \in todo : public[n].kind = "method"}
      varis == {n \in todo : public[n].kind = "value"}
  IN [kind |-> "Class", module |-> module, name |-> cc.name,
      docstring |-> <<>>,
      doc |-> [n \in DOMAIN scanned \cup meths \cup varis |->
                 IF n \in meths THEN Function(module, public[n])
                 ELSE IF n \in varis THEN Variable(module, n, <<>>)
                 ELSE scanned[n]],
      doc_init |-> doc_init, public |-> public]

\* Class.__init__(self, module, class_obj): the exception raised ("" for
\* none) and the entity. IOError and TypeError of the source are caught.
Class(module, cc) ==
  IF cc.source \notin {"ok", "IOError", "TypeError"}
  THEN [exc |-> cc.source, ent |-> <<>>]
  ELSE Only({[exc |-> "", ent |-> ClassMembers(module, cc, public, scanned, doc_init)] :
               public \in {Class_fetch_public_objs(cc)},
               scanned \in {IF cc.source = "ok"
                            THEN extract_var_docstrings(module, cc.body)
                            ELSE <<>>},
               doc_init \in {IF cc.source = "ok" /\ ~cc.initbody.none
                                  /\ DunderInit \in DOMAIN Class_fetch_public_objs(cc)
                             THEN extract_var_docstrings(module, cc.initbody.v)
                             ELSE <<>>}})

DotPy == <<".", "p", "y">>

\* path.splitext(f)[0] of a file name that ends with '.py'
RootOf(f) == SubSeq(f, 1, Len(f) - Len(DotPy))

\* Results of calls, kept by what they were called for.
ResultFor(results, key) == (CHOOSE pair \in results : pair[1] = key)[2]

\* A directory scan that stored the imported modules under the roots of
\* their file names.
ModuleScannedUnderRoots(name, public, direct, roots, got) ==
  LET kept   == {r \in roots : ResultFor(got, r).excs = {}}
      raised == (UNION {ResultFor(got, r).excs : r \in roots}) \ {"IOError"}
  IN [excs |-> raised,
      mod  |-> IF raised # {} THEN <<>>
               ELSE [kind |-> "Module", module |-> name, name |-> name,
                     docstring |-> <<>>,
                     doc |-> [n \in DOMAIN direct \cup kept |->
                                IF n \in kept THEN ResultFor(got, n).mod
                                ELSE direct[n]],
                     public |-> public]]

\* Module.__init__, lines 226-242: the modules the scan of the directory
\* imported and documented (got: for each root, the exceptions raised or the
\* Module entity) are added under their qualified names, unless one raised
\* something other than IOError.
ModuleScanned(name, public, direct, roots, got) ==
  LET kept   == {r \in roots : ResultFor(got, r).excs = {}}
      raised == (UNION {ResultFor(got, r).excs : r \in roots}) \ {"IOError"}
      keys   == {ResultFor(got, r).mod.name : r \in kept}
  IN [excs |-> raised,
      mod  |-> IF raised # {} THEN <<>>
               ELSE [kind |-> "Module", module |-> name, name |-> name,
                     docstring |-> <<>>,
                     doc |-> [n \in DOMAIN direct \cup keys |->
                                IF n \in keys
                                THEN ResultFor(got,
                                       CHOOSE r \in kept :
                                         ResultFor(got, r).mod.name = n).mod
                                ELSE direct[n]],
                     public |-> public]]

\* The roots of the files of the package directory that the scan imports.
ScanRoots(mo, direct) ==
  LET files == IF mo.package
               THEN {f \in mo.listing :
                       EndsWith(f, DotPy) /\ ~StartsWith(f, <<".">>)}
               ELSE {}
  IN {RootOf(f) : f \in files} \ ({DunderInit} \cup DOMAIN direct)

\* Module.__init__(self, module): the exceptions it may raise (none: it
\* returns; which one of several depends on the order of the dict and of
\* the directory listing) and the Module entity. A package is a module with
\* __file__, __package__ and __path__ whose directory exists.
RECURSIVE Module(_, _)

\* Module.__init__, lines 226-242, after the direct members.
ModuleScan(w, name, public, direct) ==
  Only({ModuleScanned(name, public, direct, roots, got) :
          roots \in {ScanRoots(w.mods[name], direct)},
          got \in {{<<r, IF w.imports[name \o <<".">> \o r].exc # ""
                         THEN [excs |-> {w.imports[name \o <<".">> \o r].exc},
                               mod |-> <<>>]
                         ELSE Module(w, w.imports[name \o <<".">> \o r].name)>> :
                      r \in ScanRoots(w.mods[name], direct)}}})

\* Module.__init__, lines 210-223: a Function, a Class or a Module for the
\* public members not yet documented (cls, sub: the results of the nested
\* constructors), then the scan of the directory.
ModuleDirect(w, name, scanned, public, cls, sub) ==
  LET funcs   == {n \in DOMAIN public :
                    /\ ~(n \in DOMAIN scanned /\ ~is_empty(scanned[n]))
                    /\ public[n].kind \in {"function", "builtin"}}
      classes == {pair[1] : pair \in cls}
      subs    == {pair[1] : pair \in sub}
      raised  == ({ResultFor(cls, n).exc : n \in classes} \ {""})
                 \cup UNION {ResultFor(sub, n).excs : n \in subs}
  IN IF raised # {} THEN [excs |-> raised, mod |-> <<>>]
     ELSE Only({ModuleScan(w, name, public, direct) :
                  direct \in {[n \in DOMAIN scanned \cup funcs \cup classes \cup subs |->
                                 IF n \in funcs THEN Function(name, public[n])
                                 ELSE IF n \in classes THEN ResultFor(cls, n).ent
                                 ELSE IF n \in subs THEN ResultFor(sub, n).mod
                                 ELSE scanned[n]]}})

\* Module.__init__, lines 200-223, after the scan of the source.
ModulePublic(w, name, scanned, public) ==
  LET todo == {n \in DOMAIN public :
                 ~(n \in DOMAIN scanned /\ ~is_empty(scanned[n]))}
  IN Only({ModuleDirect(w, name, scanned, public, cls, sub) :
             cls \in {{<<n, Class(name, w.classes[public[n].name])>> :
                         n \in {n \in todo : public[n].kind = "class"}}},
             sub \in {{<<n, Module(w, public[n].name)>> :
                         n \in {n \in todo : public[n].kind = "module"
                                  /\ is_submodule(name, public[n].name)}}}})

Module(w, name) ==
  LET mo == w.mods[name] IN
  IF mo.source \notin {"ok", "TypeError"} THEN [excs |-> {mo.source}, mod |-> <<>>]
  ELSE Only({IF pub.exc # "" THEN [excs |-> {pub.exc}, mod |-> <<>>]
             ELSE ModulePublic(w, name, scanned, pub.public) :
               scanned \in {IF mo.source = "ok"
                            THEN extract_var_docstrings(name, mo.body)
                            ELSE <<>>},
               pub \in {Module_fetch_public_objs(mo)}})

\* External.__init__(self, name)
External(name) == [Doc(<<>>, name, <<>>) EXCEPT !.kind = "External"]

ExtMarker == <<"(", "e", "x", "t", ")">>

\* text_ref(): External's and Class's; Doc's own fails its assertion.
text_ref(e) ==
  IF e.kind = "External" THEN [exc |-> "", text |-> e.name \o <<SP>> \o ExtMarker]
  ELSE IF e.kind = "Class"
  THEN [exc |-> "", text |-> e.module \o <<".">> \o e.name]
  ELSE [exc |-> "AssertionError", text |-> <<>>]

\* self.doc.get(key, External(name))
DocGet(self, key, name) ==
  IF key \in DOMAIN self.doc THEN self.doc[key] ELSE External(name)

\* Module.find_ident(self, name)
RECURSIVE find_ident(_, _)
find_ident(self, name) ==
  LET pieces == Split(name, ".")
      parts  == Count(self.name, ".") + 1
  IN IF Len(pieces) = 1 THEN DocGet(self, name, name)
     ELSE IF ~StartsWith(name, self.name) THEN External(name)
     ELSE IF Count(self.name, ".") + 1 = Count(name, ".")
     THEN DocGet(self, pieces[Len(pieces)], name)
     ELSE IF Len(pieces) < parts + 1 THEN External(name)
     ELSE LET subname == Join(SubSeq(pieces, 1, parts + 1), ".") IN
          IF subname \in DOMAIN self.doc
          THEN find_ident(self.doc[subname], name)
          ELSE External(name)

\* ------------------------------------------------------------ the modules documented

MaxAttrs == 2

F == <<"f">>
G == <<"_", "g">>
S == <<"s">>
V == <<"v">>
W == <<"_", "w">>
C == <<"C">>

AttrNames == {F, G, S}

\* What an attribute of p may be bound to.
ObjectPool ==
  {FunctionObj(F, P), FunctionObj(F, O), FunctionObj(F, PS), BuiltinObj(F),
   ValueObj, InstanceObj(O), ClassObj(C, P),
   ModuleObj(PS), ModuleObj(O), ModuleObj(PX), ModuleObj(P), ModuleObj(PU)}

\* The values of __all__: private, public, omitted and missing names.
AllLists == {<<>>, <<F>>, <<G>>, <<F, G>>, <<G, S, G>>, <<F, <<"z">>>>}

\* v = ...; "a" and _w = ...; " a": two documented variables.
VarBody ==
  <<AssignNode(1, "Name", V), ExprNode("Str", <<"a">>),
    AssignNode(1, "Name", W), ExprNode("Str", <<SP, "a">>)>>

\* class C: x = ...; "a"; def __init__(self): self.y = ...; "a"
ClassC(source) ==
  ClassCfg(C,
           (DunderInit :> Obj("method", DunderInit, None))
             @@ (<<"m">> :> Obj("method", <<"m">>, None))
             @@ (<<"_", "h">> :> Obj("method", <<"_", "h">>, None))
             @@ (<<"x">> :> ValueObj)
             @@ (<<"n">> :> ValueObj)
             @@ (<<"r">> :> Obj("function", <<"r">>, None)),
           source,
           <<AssignNode(1, "Name", <<"x">>), ExprNode("Str", <<"a">>), PassNode>>,
           Some(<<AssignNode(1, "Attribute", <<"y">>), ExprNode("Str", <<"a">>)>>))

SPy == <<"s", ".", "p", "y">>
TPy == <<"t", ".", "p", "y">>

\* What every listing of p's directory holds besides its modules: the
\* initializer, a hidden file, a file that is no source file.
OtherFiles ==
  {DunderInit \o DotPy, <<".", "h", ".", "p", "y">>, <<"n", ".", "t", "x", "t">>}

Imported(name) == [exc |-> "", name |-> name]
ImportFails(exc) == [exc |-> exc, name |-> <<>>]

\* sys.modules and importlib.import_module, given the module p, what
\* importing p.t does, the source of p.t and the source of class C.
World(p, importT, sourceT, sourceC) ==
  [mods |->
     (P :> p)
     @@ (PS :> ModuleCfg(PS, (F :> FunctionObj(F, PS)) @@ (V :> ValueObj), None, "ok",
                         <<AssignNode(1, "Name", V), ExprNode("Str", <<"a">>)>>,
                         FALSE, {}))
     @@ (PT :> ModuleCfg(PT, (G :> FunctionObj(G, PT)) @@ (<<"d">> :> ModuleObj(PTD))
                               @@ (<<"g">> :> FunctionObj(<<"g">>, PT)),
                         None, sourceT, <<>>, FALSE, {}))
     @@ (PTD :> ModuleCfg(PTD, <<"h">> :> FunctionObj(<<"h">>, PTD), None, "ok",
                          <<>>, FALSE, {}))
     @@ (PU :> ModuleCfg(PU, <<"k">> :> FunctionObj(<<"k">>, PU), None, "ok",
                         <<>>, FALSE, {}))
     @@ (PX :> ModuleCfg(PX, F :> FunctionObj(F, PX), None, "ok", <<>>, FALSE, {}))
     @@ (O :> ModuleCfg(O, F :> FunctionObj(F, O), None, "ok", <<>>, FALSE, {})),
   classes |-> (C :> ClassC(sourceC)),
   imports |-> (PS :> Imported(PS)) @@ (PT :> importT)]

\* The functions from at most n of the names to the objects.
AttrMaps(names, objs, n) ==
  UNION {[d -> objs] : d \in {d \in SUBSET names : Cardinality(d) <= n}}

\* Modules p that differ in their attributes and in __all__: plain modules
\* whose source is there.
VisWorlds ==
  {World(ModuleCfg(P, attrs, all, "ok", <<>>, FALSE, {}),
         Imported(PT), "ok", "ok") :
     attrs \in AttrMaps(AttrNames, ObjectPool, MaxAttrs),
     all \in {None} \cup {Some(l) : l \in AllLists}}

\* Packages p that differ in whether s and C are attributes, in what source
\* can be retrieved, in the files of the directory and in what importing
\* them does.
TreeWorlds ==
  {World(ModuleCfg(P, (F :> FunctionObj(F, P)) @@ (V :> ValueObj) @@ (W :> ValueObj)
                        @@ sAttr @@ cAttr,
                   None, sourceP, VarBody, package, OtherFiles \cup files),
         importT, sourceT, sourceC) :
     sAttr \in {<<>>, S :> ModuleObj(PS)},
     cAttr \in {<<>>, C :> ClassObj(C, P)},
     sourceP \in {"ok", "TypeError", "IOError"},
     package \in BOOLEAN,
     files \in SUBSET {SPy, TPy},
     importT \in {Imported(PT), ImportFails("ImportError"),
                  ImportFails("SyntaxError"), ImportFails("IOError")},
     sourceT \in {"ok", "IOError"},
     sourceC \in {"ok", "IOError", "TypeError", "SyntaxError"}}

\* Before Module(p), in a given state of the interpreter.
InitIn(worlds) ==
  /\ pc = "start"
  /\ world \in worlds
  /\ root = <<>>
  /\ ident = <<>>
  /\ found = <<>>
  /\ textIdle /\ scanIdle /\ sortIdle /\ paramsIdle

Init == InitIn(VisWorlds)

InitTree == InitIn(TreeWorlds)

\* Module(importlib.import_module('p')): it returns the entity or raises.
construct ==
  /\ pc = "start"
  /\ LET r == Module(world, P) IN
       IF r.excs = {} THEN root' = [exc |-> "", mod |-> r.mod]
       ELSE \E e \in r.excs : root' = [exc |-> e, mod |-> <<>>]
  /\ pc' = "built"
  /\ UNCHANGED <<world, ident, found, rendered, new, children, i, vs, values,
                 sorted, argspec, params>>

\* Every Module entity documented under m, at any depth.
RECURSIVE Submodules(_)
Submodules(m) ==
  LET direct == {m.doc[k] : k \in {k \in DOMAIN m.doc : m.doc[k].kind = "Module"}}
  IN direct \cup UNION {Submodules(d) : d \in direct}

\* The qualified names of the members of the modules documented under m.
MemberIdents(m) ==
  UNION {{sm.name \o <<".">> \o e : e \in DOMAIN sm.doc} : sm \in Submodules(m)}

\* Names a caller may look up: bare, inside p, outside p, in sub-modules.
IdentPool ==
  {F, V, P \o <<".">> \o F, PX \o <<".">> \o F, O \o <<".">> \o F,
   PS \o <<".">> \o F, PT \o <<".">> \o <<"g">>, PTD \o <<".">> \o <<"h">>,
   P \o <<".">> \o <<"q">>}

\* root.find_ident(name)
find_ident_call ==
  /\ pc = "built"
  /\ root.exc = ""
  /\ \E name \in IdentPool \cup MemberIdents(root.mod) :
       /\ ident' = name
       /\ found' = find_ident(root.mod, name)
  /\ pc' = "found"
  /\ UNCHANGED <<world, root, rendered, new, children, i, vs, values, sorted,
                 argspec, params>>

Next == construct \/ find_ident_call

\* Documenting a plain module p, whatever its attributes and __all__.
Spec == Init /\ [][Next]_vars

\* Documenting a package p, whatever can be read and imported.
SpecTree == InitTree /\ [][Next]_vars

\* ------------------------------------------------------------ properties of Module

\* The module documented, its attributes and its explicit export list.
Documented == world.mods[P]
Members == getmembers(Documented)
HasAll == ~Documented.all.none
AllNames == {Documented.all.v[k] : k \in DOMAIN Documented.all.v}
Built == pc \in {"built", "found"} /\ root.exc = ""

\* C1: with an explicit export list, the keys of the public mapping built at
\* construction are exactly the listed names: a listed name is public even
\* with a leading underscore, an attribute that is not listed is not public
\* even without one.
C1_ExplicitExport ==
  (Built /\ HasAll) =>
    /\ DOMAIN root.mod.public = AllNames
    /\ \A n \in AllNames : root.mod.public[n] = Members[n]
    /\ \A n \in DOMAIN Members : n \notin AllNames => n \notin DOMAIN root.mod.public

\* __all__ lists the private _g and omits the public-looking f, both
\* attributes of the module, and the module has been documented.
C1_Witness ==
  /\ Built /\ HasAll
  /\ G \in AllNames /\ G \in DOMAIN root.mod.public
  /\ F \in DOMAIN Members /\ F \notin AllNames

C7_AsStated ==
  (pc = "found" /\ Count(ident, ".") >= 1
     /\ ~StartsWith(ident, root.mod.name \o <<".">>)) =>
    /\ found.kind = "External"
    /\ text_ref(found).exc = ""
    /\ EndsWith(text_ref(found).text, ExtMarker)

\* The construction reaches the scan of the package directory: the source was
\* read or given up with TypeError, and no class raised.
ReachesScan ==
  /\ Documented.package
  /\ Documented.source \in {"ok", "TypeError"}
  /\ C \in DOMAIN Documented.attrs => world.classes[C].source # "SyntaxError"

\* C8: when importing a file found in the package directory fails, the file
\* is left out, the other files are still documented, and the construction
\* returns.
C8_AsStated ==
  (pc = "built" /\ ~HasAll /\ ReachesScan /\ TPy \in Documented.listing
     /\ world.imports[PT].exc # "") =>
    /\ root.exc = ""
    /\ PT \notin DOMAIN root.mod.doc
    /\ SPy \in Documented.listing =>
         (S \in DOMAIN root.mod.doc \/ PS \in DOMAIN root.mod.doc)

\* No import of the directory scan fails with anything the scan lets through.
ImportsSucceed ==
  (Documented.package /\ TPy \in Documented.listing)
    => world.imports[PT].exc \in {"", "IOError"}

ClassDocumented == ~HasAll /\ C \in DOMAIN Documented.attrs

\* C9: when the source of the module or of a class cannot be retrieved or
\* parsed, whatever the failure, the construction returns, the scanned
\* comments are empty and the public members are documented by reflection.
C9_AsStated ==
  (pc = "built" /\ ~HasAll /\ ImportsSucceed) =>
    /\ Documented.source # "ok" =>
         /\ root.exc = ""
         /\ \A n \in DOMAIN root.mod.doc : root.mod.doc[n].kind # "Variable"
         /\ F \in DOMAIN Documented.attrs => F \in DOMAIN root.mod.doc
    /\ (Documented.source = "ok" /\ ClassDocumented
          /\ world.classes[C].source # "ok") =>
         /\ root.exc = ""
         /\ root.mod.doc[C].doc_init = <<>>
         /\ \A n \in DOMAIN root.mod.doc[C].doc : is_empty(root.mod.doc[C].doc[n])
         /\ <<"m">> \in DOMAIN root.mod.doc[C].doc

\* C10: for every sub-module documented under the root, at any depth, and
\* every member of it with a bare name, looking up the sub-module's qualified
\* name + '.' + the bare name on the root returns that member.
C10_AsStated ==
  pc = "found" =>
    \A sm \in Submodules(root.mod) :
      \A e \in DOMAIN sm.doc :
        (Count(e, ".") = 0 /\ ident = sm.name \o <<".">> \o e)
          => found = sm.doc[e]

\* The modules documented by the construction: the root and every Module
\* entity nested in it.
AllModules == {root.mod} \cup Submodules(root.mod)

\* k is bound in m to the Variable that the scan of m's source produced.
ScannedVariable(m, k) ==
  /\ world.mods[m.name].source = "ok"
  /\ k \in DOMAIN extract_var_docstrings(m.name, world.mods[m.name].body)
  /\ m.doc[k] = extract_var_docstrings(m.name, world.mods[m.name].body)[k]
  /\ m.doc[k].kind = "Variable"

\* k is the qualified name of a source file of the package m, bound in m to
\* the Module of what importing it returned.
ScannedSubmodule(m, k) ==
  /\ world.mods[m.name].package
  /\ \E f \in world.mods[m.name].listing :
       /\ EndsWith(f, DotPy) /\ ~StartsWith(f, <<".">>)
       /\ RootOf(f) # DunderInit
       /\ k = m.name \o <<".">> \o RootOf(f)
  /\ m.doc[k].kind = "Module"
  /\ m.doc[k].name = k

\* C11 as stated: after construction, every key of the members mapping of
\* every Module, root or nested, is a key of its public mapping or is bound
\* to a Variable produced by the scan of the module's source; no other key
\* is present.
C11_AsStated ==
  Built =>
    \A m \in AllModules :
      \A k \in DOMAIN m.doc :
        k \in DOMAIN m.public \/ ScannedVariable(m, k)

\* C11: after construction, every key of the members mapping of every
\* Module, root or nested, is a key of its public mapping, or is bound to a
\* Variable produced by the scan of the module's source, or is the qualified
\* name of a source file of the package's directory and is bound to the
\* Module that the directory scan built for it; no other key is present.
C11_Keys ==
  Built =>
    \A m \in AllModules :
      \A k \in DOMAIN m.doc :
        \/ k \in DOMAIN m.public
        \/ ScannedVariable(m, k)
        \/ ScannedSubmodule(m, k)

\* A package was built whose members hold a public function, the private
\* variable documented by the scan of the source, and a module that the scan
\* of the directory added, which itself documents a nested module.
C11_Witness ==
  /\ Built
  /\ F \in DOMAIN root.mod.doc /\ F \in DOMAIN root.mod.public
  /\ W \in DOMAIN root.mod.doc /\ W \notin DOMAIN root.mod.public
  /\ ScannedVariable(root.mod, W)
  /\ PT \in DOMAIN root.mod.doc /\ PT \notin DOMAIN root.mod.public
  /\ ScannedSubmodule(root.mod, PT)
  /\ Cardinality(AllModules) >= 3
====
